---- MODULE Spec2Model ----
(***************************************************************************)
(* AI Diet & Workout Planner: the /generate_plan pipeline                  *)
(* (src/backend/main.py) and the helpers it calls (src/backend/utils.py):  *)
(* the metrics calculator, the Gemini gateway call_llm with its retry      *)
(* loop, the three plan generators with their parsers, and the diet        *)
(* compliance screen.  Requests are coroutines of one asyncio event loop.  *)
(***************************************************************************)
EXTENDS Integers, Sequences, FiniteSets, TLC

\* ------------------------------------------------------------------ bounds
\* Number of request slots (clients that may have a request in flight).
NumRequests == 2

Requests == 1..NumRequests

None == [t |-> "None"]

\* ------------------------------------------------------------------- text
\* Text is a sequence of one-character strings, so that str.lower() and the
\* substring test `term in meals_lower` are computed, not assumed.
UpperChars == <<"A","B","C","D","E","F","G","H","I","J","K","L","M",
                "N","O","P","Q","R","S","T","U","V","W","X","Y","Z">>

LowerChars == <<"a","b","c","d","e","f","g","h","i","j","k","l","m",
                "n","o","p","q","r","s","t","u","v","w","x","y","z">>

\* The lower-case letter of each upper-case one.
LowerOf ==
  [u \in {UpperChars[i] : i \in 1..Len(UpperChars)} |->
     LowerChars[CHOOSE i \in 1..Len(UpperChars) : UpperChars[i] = u]]

LowerChar(c) == IF c \in DOMAIN LowerOf THEN LowerOf[c] ELSE c

\* str.lower()
Lower(s) == [i \in 1..Len(s) |-> LowerChar(s[i])]

\* Python's `term in text` on strings: term occurs as a contiguous substring.
Contains(term, s) ==
  \E i \in 1..(Len(s) - Len(term) + 1) : SubSeq(s, i, i + Len(term) - 1) = term

Range(s) == {s[i] : i \in 1..Len(s)}

\* validate_diet_plan's two fixed term lists.
non_veg_terms ==
  << <<"c","h","i","c","k","e","n">>, <<"b","e","e","f">>, <<"f","i","s","h">>,
     <<"s","a","l","m","o","n">>, <<"t","u","n","a">>, <<"t","u","r","k","e","y">>,
     <<"s","t","e","a","k">>, <<"m","e","a","t","b","a","l","l","s">> >>

nut_terms ==
  << <<"n","u","t">>, <<"p","e","a","n","u","t">>, <<"a","l","m","o","n","d">>,
     <<"c","a","s","h","e","w">>, <<"w","a","l","n","u","t">>,
     <<"h","a","z","e","l","n","u","t">>, <<"p","e","c","a","n">>,
     <<"p","i","s","t","a","c","h","i","o">> >>

\* The two tags the screen looks for in the profile's lists.
Vegetarian == <<"v","e","g","e","t","a","r","i","a","n">>

NoNuts == <<"n","o"," ","n","u","t","s">>

\* any(term in text for term in terms); the text is evaluated once.
AnyTermIn(terms, s) ==
  \E text \in {s} : \E i \in 1..Len(terms) : Contains(terms[i], text)

\* ------------------------------------------------------------------- JSON
\* Parsed JSON values, tagged by their Python type.
Str(s) == [t |-> "str", s |-> s]

Dict(m) == [t |-> "dict", m |-> m]

List(xs) == [t |-> "list", xs |-> xs]

IsDict(v) == v.t = "dict"

\* `key in parsed` for a dict
HasKey(v, k) == k \in DOMAIN v.m

WeekDays == <<"Monday", "Tuesday", "Wednesday", "Thursday", "Friday", "Saturday", "Sunday">>

CombinedKeys == <<"diet_plan", "workout_plan", "tips">>

\* The text a model returns: a body that is JSON or not, possibly wrapped in
\* a Markdown code fence.
Garbage == [t |-> "invalid"]

Raw(fenced, body) == [fenced |-> fenced, body |-> body]

\* clean_json_response: strips the ``` / ```json markers and whitespace.
clean_json_response(response) == [response EXCEPT !.fenced = FALSE]

JSONDecodeError == [t |-> "JSONDecodeError"]

TypeError == [t |-> "TypeError"]

\* json.loads: None is no text at all (a TypeError); a fenced text or a
\* non-JSON body does not decode.
json_loads(text) ==
  IF text = None THEN TypeError
  ELSE IF text.fenced \/ text.body.t = "invalid" THEN JSONDecodeError ELSE text.body

\* ---------------------------------------------------------------- metrics
\* Reals are kept as exact fractions: bmr = bmr4/4, tdee and calories over 160
\* (every activity multiplier is a multiple of 1/40).

\* Python's round(): to the nearest integer, ties to the even one.  n/d, d > 0.
round(n, d) ==
  LET q == n \div d
      r == n - q * d
  IN  IF 2 * r < d THEN q
      ELSE IF 2 * r > d THEN q + 1
      ELSE IF q % 2 = 0 THEN q ELSE q + 1

\* compute_bmr (Mifflin-St Jeor), times 4.
compute_bmr(sex, weight, height, age) ==
  IF sex = "male"
  THEN 40 * weight + 25 * height - 20 * age + 20
  ELSE 40 * weight + 25 * height - 20 * age - 644

\* activity_multiplier, times 40; an unknown level falls back to 1.2.
activity_multiplier(level) ==
  CASE level = "sedentary"   -> 48
    [] level = "light"       -> 55
    [] level = "moderate"    -> 62
    [] level = "active"      -> 69
    [] level = "very_active" -> 76
    [] OTHER                 -> 48

\* adjust_for_goal on calories times 160: lose -500, gain +300.
adjust_for_goal(tdee, goal) ==
  IF goal = "lose" THEN tdee - 500 * 160
  ELSE IF goal = "gain" THEN tdee + 300 * 160
  ELSE tdee

\* compute_macros: calories is times 160.  carbs = (calories - (4*protein +
\* 9*fat)) / 4, with 9*fat = 25% (lose) or 30% of the calories.
compute_macros(weight, calories, goal) ==
  IF goal = "lose"
  THEN [protein_g |-> round(18 * weight, 10),
        fat_g     |-> round(calories, 160 * 36),
        carbs_g   |-> round(15 * calories - 23040 * weight, 12800)]
  ELSE [protein_g |-> round(15 * weight, 10),
        fat_g     |-> round(calories, 160 * 30),
        carbs_g   |-> round(7 * calories - 9600 * weight, 6400)]

\* ---------------------------------------------------------------- profiles
\* UserInput, without the fields no check reads (name, equipment, notes).
Profile(age, sex, h, w, level, goal, prefs, restr, days) ==
  [age |-> age, sex |-> sex, height_cm |-> h, weight_kg |-> w,
   activity_level |-> level, fitness_goal |-> goal,
   dietary_preferences |-> prefs, restrictions |-> restr,
   workout_days_per_week |-> days]

\* The request bodies the clients send.  The last one is out of range.
Profiles ==
  { Profile(30, "male", 175, 70, "moderate", "lose", <<Vegetarian>>, <<>>, 3),
    Profile(25, "female", 165, 60, "light", "maintain", <<>>, <<NoNuts>>, 0),
    Profile(40, "male", 180, 85, "active", "gain", <<Vegetarian>>, <<NoNuts>>, 5),
    Profile(52, "female", 160, 55, "sedentary", "gain", <<>>, <<>>, 2),
    Profile(0, "female", 160, 55, "light", "lose", <<>>, <<>>, 2) }

\* UserInput's field constraints: a body that breaks one never reaches
\* generate_plan (the framework answers 422).
ModelValid(p) ==
  /\ p.age > 0 /\ p.height_cm > 0 /\ p.weight_kg > 0
  /\ p.sex \in {"male", "female"}
  /\ p.activity_level \in {"sedentary", "light", "moderate", "active", "very_active"}
  /\ p.fitness_goal \in {"lose", "maintain", "gain"}
  /\ p.workout_days_per_week >= 0 /\ p.workout_days_per_week <= 7

\* generate_plan's own input validation: the detail of its HTTP 400, "" when
\* the input passes.
ValidationDetail(user) ==
  IF user.age <= 0 \/ user.height_cm <= 0 \/ user.weight_kg <= 0
     \/ user.workout_days_per_week < 0
  THEN "Invalid numeric values"
  ELSE IF user.sex \notin {"male", "female"}
  THEN "Sex must be 'male' or 'female'"
  ELSE IF user.activity_level \notin {"sedentary", "light", "moderate", "active", "very_active"}
  THEN "Invalid activity level"
  ELSE IF user.fitness_goal \notin {"lose", "maintain", "gain"}
  THEN "Invalid fitness goal"
  ELSE ""

\* Steps 1-4 of generate_plan.
ComputeMetrics(user) ==
  LET bmr == compute_bmr(user.sex, user.weight_kg, user.height_cm, user.age)
      tdee == bmr * activity_multiplier(user.activity_level)
      calorie_target == adjust_for_goal(tdee, user.fitness_goal)
  IN  [bmr |-> round(bmr, 4), tdee |-> round(tdee, 160),
       calorie_target |-> round(calorie_target, 160),
       macros |-> compute_macros(user.weight_kg, calorie_target, user.fitness_goal)]

\* -------------------------------------------------------------- exceptions
\* A raised exception: its Python type, its message, and (for the record only)
\* the failure class of the design it belongs to.
Exc(type, msg, class) == [type |-> type, msg |-> msg, class |-> class]

NoExc == [type |-> "none", msg |-> "", class |-> "none"]

\* ---------------------------------------------------------------- screening
\* The keys of a parsed plan in the order the payload lists them.
KeyOrder == WeekDays \o <<"Notes">>

\* Mutant: the terms searched in the text as written, not lower-cased.
CheckDayCaseSensitive(meals, is_vegetarian, no_nuts) ==
  IF meals.t # "str"
  THEN Exc("AttributeError", "object has no attribute 'lower'", "unexpected")
  ELSE IF is_vegetarian /\ AnyTermIn(non_veg_terms, meals.s)
  THEN Exc("ValueError", "Non-vegetarian item found for vegetarian diet", "compliance")
  ELSE IF no_nuts /\ AnyTermIn(nut_terms, meals.s)
  THEN Exc("ValueError", "Nut-containing item found despite no-nuts restriction", "compliance")
  ELSE NoExc

\* One iteration of validate_diet_plan's loop; meals.lower() comes first and
\* raises AttributeError on a value that is not a string.
CheckDay(meals, is_vegetarian, no_nuts) ==
  IF meals.t # "str"
  THEN Exc("AttributeError", "object has no attribute 'lower'", "unexpected")
  ELSE LET meals_lower == Lower(meals.s)
       IN  IF is_vegetarian /\ AnyTermIn(non_veg_terms, meals_lower)
           THEN Exc("ValueError", "Non-vegetarian item found for vegetarian diet", "compliance")
           ELSE IF no_nuts /\ AnyTermIn(nut_terms, meals_lower)
           THEN Exc("ValueError", "Nut-containing item found despite no-nuts restriction", "compliance")
           ELSE NoExc

RECURSIVE CheckDays(_, _, _, _)
CheckDays(m, i, is_vegetarian, no_nuts) ==
  IF i > Len(KeyOrder) THEN NoExc
  ELSE IF KeyOrder[i] \notin DOMAIN m THEN CheckDays(m, i + 1, is_vegetarian, no_nuts)
  ELSE LET e == CheckDay(m[KeyOrder[i]], is_vegetarian, no_nuts)
       IN  IF e # NoExc THEN e ELSE CheckDays(m, i + 1, is_vegetarian, no_nuts)

\* validate_diet_plan: the exception it raises, NoExc when it returns.
validate_diet_plan(plan, dietary_preferences, restrictions) ==
  LET is_vegetarian == Vegetarian \in {Lower(dietary_preferences[i]) :
                                         i \in 1..Len(dietary_preferences)}
      no_nuts == NoNuts \in {Lower(restrictions[i]) : i \in 1..Len(restrictions)}
  IN  IF ~IsDict(plan)
      THEN Exc("AttributeError", "object has no attribute 'items'", "unexpected")
      ELSE CheckDays(plan.m, 1, is_vegetarian, no_nuts)

\* ----------------------------------------------------------------- parsers
\* Mutant: any() for all().
SomeDayIn(parsed) == \E i \in 1..Len(WeekDays) : HasKey(parsed, WeekDays[i])

\* all(day in parsed for day in ["Monday", ..., "Sunday"])
AllDaysIn(parsed) == \A i \in 1..Len(WeekDays) : HasKey(parsed, WeekDays[i])

\* Mutant: any() for all().
HasSomeCombinedKey(parsed) == \E i \in 1..Len(CombinedKeys) : HasKey(parsed, CombinedKeys[i])

\* all(key in parsed for key in ["diet_plan", "workout_plan", "tips"])
HasCombinedKeys(parsed) == \A i \in 1..Len(CombinedKeys) : HasKey(parsed, CombinedKeys[i])

\* generate_diet_plan after call_llm returned `response`: [exc, plan].
ParseDietPlan(response, user) ==
  LET parsed == json_loads(response)
  IN  IF parsed = TypeError
      THEN [exc |-> Exc("TypeError", "the JSON object must be str", "unexpected"), plan |-> None]
      ELSE IF parsed = JSONDecodeError
      THEN [exc |-> Exc("ValueError", "Invalid JSON response from LLM for diet plan", "schema"),
            plan |-> None]
      ELSE IF ~IsDict(parsed) \/ ~AllDaysIn(parsed)
      THEN [exc |-> Exc("ValueError", "Invalid diet plan structure", "schema"), plan |-> None]
      ELSE LET e == validate_diet_plan(parsed, user.dietary_preferences, user.restrictions)
           IN  IF e # NoExc THEN [exc |-> e, plan |-> None]
               ELSE [exc |-> NoExc, plan |-> parsed]

\* generate_workout_plan after call_llm returned `response`: [exc, plan].
ParseWorkoutPlan(response) ==
  LET parsed == json_loads(response)
  IN  IF parsed = TypeError
      THEN [exc |-> Exc("TypeError", "the JSON object must be str", "unexpected"), plan |-> None]
      ELSE IF parsed = JSONDecodeError
      THEN [exc |-> Exc("ValueError", "Invalid JSON response from LLM for workout plan", "schema"),
            plan |-> None]
      ELSE IF ~IsDict(parsed) \/ ~AllDaysIn(parsed)
      THEN [exc |-> Exc("ValueError", "Invalid workout plan structure", "schema"), plan |-> None]
      ELSE [exc |-> NoExc, plan |-> parsed]

\* combine_plans after call_llm returned `response`: [exc, plan].
ParseCombinedPlan(response, user) ==
  LET parsed == json_loads(response)
  IN  IF parsed = TypeError
      THEN [exc |-> Exc("TypeError", "the JSON object must be str", "unexpected"), plan |-> None]
      ELSE IF parsed = JSONDecodeError
      THEN [exc |-> Exc("ValueError", "Invalid JSON response from LLM for combined plan", "schema"),
            plan |-> None]
      ELSE IF ~IsDict(parsed) \/ ~HasCombinedKeys(parsed)
      THEN [exc |-> Exc("ValueError", "Invalid combined plan structure", "schema"), plan |-> None]
      ELSE LET e == validate_diet_plan(parsed.m["diet_plan"], user.dietary_preferences,
                                       user.restrictions)
           IN  IF e # NoExc THEN [exc |-> e, plan |-> None]
               ELSE [exc |-> NoExc, plan |-> parsed]

\* ----------------------------------------------------------------- gateway
\* call_llm's defaults and literals.
Retries == 3

DietMaxTokens == 2000

WorkoutMaxTokens == 2000

MergeMaxTokens == 3000

TokenBump == 1000

RECURSIVE Pow2(_)
Pow2(n) == IF n = 0 THEN 1 ELSE 2 * Pow2(n - 1)

\* Mutant: the exponent counted from 1.
BackoffDelayFromOne(attempt) == Pow2(attempt + 1)

\* The delay of sleep(2 ** attempt).
BackoffDelay(attempt) == Pow2(attempt)

\* Mutant: the last attempt retried too.
AttemptsRemainOffByOne(attempt, retries) == attempt < retries

\* `attempt < retries - 1`: another iteration of the for loop is left.
AttemptsRemain(attempt, retries) == attempt < retries - 1

\* Mutant: server errors retried like rate limits.
IsRateLimitedOrServerError(resp) == resp.status \in {429, 500}

\* `response.status_code == 429`
IsRateLimited(resp) == resp.status = 429

\* Mutant: the cap raised from its current value on every truncated answer.
RaisedCapCumulative(max_tokens, current) == current + TokenBump

\* The cap written on a truncated answer: max_tokens + 1000, from the
\* parameter, whatever the cap already is.
RaisedCap(max_tokens, current) == max_tokens + TokenBump

\* An answer of the upstream: a network failure (status 0), an HTTP error, a
\* 200 whose body is not JSON, or a 200 with its payload: candidates present
\* or not, the candidate's content present or not, the payload's
\* finishReason, the candidate's text.
NetworkError ==
  [status |-> 0, json |-> FALSE, candidates |-> FALSE, content |-> FALSE,
   finishReason |-> "", text |-> Raw(FALSE, Garbage)]

HttpError(code) ==
  [status |-> code, json |-> FALSE, candidates |-> FALSE, content |-> FALSE,
   finishReason |-> "", text |-> Raw(FALSE, Garbage)]

BadBody ==
  [status |-> 200, json |-> FALSE, candidates |-> FALSE, content |-> FALSE,
   finishReason |-> "", text |-> Raw(FALSE, Garbage)]

Ok(candidates, content, finishReason, text) ==
  [status |-> 200, json |-> TRUE, candidates |-> candidates, content |-> content,
   finishReason |-> finishReason, text |-> text]

\* The frame of one call_llm: its arguments, data["generationConfig"]
\* ["maxOutputTokens"], the loop index, and what the call did so far: the
\* POSTs issued, the delays slept, the 429 and the truncated answers that
\* were retried, and the kind of the last answer.
NewCall(prompt, max_tokens) ==
  [prompt |-> prompt, max_tokens |-> max_tokens, retries |-> Retries,
   maxOutputTokens |-> max_tokens, attempt |-> 0, posts |-> 0, sleeps |-> <<>>,
   n429 |-> 0, ntrunc |-> 0, last |-> "none"]

NoCall == NewCall(None, 0)

\* What an answer is to the retry loop.
RespKind(resp) ==
  IF resp.status = 0 THEN "network"
  ELSE IF resp.status = 429 THEN "http429"
  ELSE IF resp.status # 200 THEN "http_error"
  ELSE IF ~resp.json THEN "bad_body"
  ELSE IF ~resp.candidates THEN "no_candidates"
  ELSE IF resp.finishReason = "MAX_TOKENS" THEN "truncated"
  ELSE IF ~resp.content THEN "no_content"
  ELSE "ok"

\* One iteration of call_llm's loop body on the answer `resp`, in the order
\* of the source: [do, frame, exc, text] with do one of sleep (backoff then
\* continue), continue, return, raise.
HandleResponse(f, resp) ==
  LET g == [f EXCEPT !.last = RespKind(resp)]
      raise(e) == [do |-> "raise", frame |-> g, exc |-> e, text |-> None]
  IN  IF resp.status = 0
      THEN raise(Exc("ValueError", "LLM API call failed", "upstream"))
      ELSE IF resp.status # 200
      THEN IF IsRateLimited(resp) /\ AttemptsRemain(f.attempt, f.retries)
           THEN [do |-> "sleep",
                 frame |-> [g EXCEPT !.n429 = @ + 1,
                                     !.sleeps = Append(@, BackoffDelay(f.attempt))],
                 exc |-> NoExc, text |-> None]
           ELSE raise(Exc("ValueError", "LLM API call failed", "upstream"))
      ELSE IF ~resp.json
      THEN raise(Exc("ValueError", "LLM API call failed", "malformed_upstream"))
      ELSE IF ~resp.candidates
      THEN raise(Exc("ValueError", "No candidates in Gemini API response", "malformed_upstream"))
      ELSE IF resp.finishReason = "MAX_TOKENS" /\ AttemptsRemain(f.attempt, f.retries)
      THEN [do |-> "continue",
            frame |-> [g EXCEPT !.ntrunc = @ + 1,
                                !.maxOutputTokens = RaisedCap(f.max_tokens, @),
                                !.attempt = @ + 1],
            exc |-> NoExc, text |-> None]
      ELSE IF ~resp.content
      THEN raise(Exc("KeyError", "content", "unexpected"))
      ELSE [do |-> "return", frame |-> g, exc |-> NoExc,
            text |-> clean_json_response(resp.text)]

\* ------------------------------------------------------- the model's answers
\* Day texts the upstream model may write.
Oats == Str(<<"O","a","t","s">>)

TunaWrap == Str(<<"T","u","n","a"," ","w","r","a","p">>)

Donut == Str(<<"D","o","n","u","t">>)

\* A day given as a nested object instead of a text.
NestedDay == Dict([k \in {"Breakfast"} |-> Oats])

AllDays == Range(WeekDays)

\* A weekly mapping over `keys`: Oats every day but `day`, which holds `v`.
WeekOf(keys, day, v) == Dict([k \in keys |-> IF k = day THEN v ELSE Oats])

GoodWeek == WeekOf(AllDays, "Monday", Oats)

ShortWeek == WeekOf(AllDays \ {"Sunday"}, "Monday", Oats)

LongWeek == WeekOf(AllDays \cup {"Notes"}, "Notes", Oats)

\* Texts the model may answer the diet prompt with.
DietTexts ==
  { Raw(FALSE, Garbage), Raw(FALSE, List(<<>>)), Raw(TRUE, GoodWeek) }
  \cup { Raw(FALSE, b) : b \in { GoodWeek, ShortWeek, LongWeek,
                                 WeekOf(AllDays, "Wednesday", TunaWrap),
                                 WeekOf(AllDays, "Friday", Donut),
                                 WeekOf(AllDays, "Monday", NestedDay) } }

\* Texts the model may answer the workout prompt with.
WorkoutTexts ==
  { Raw(FALSE, b) : b \in { Garbage, List(<<>>), GoodWeek, ShortWeek, LongWeek } }

Combined(diet, workout, tips) ==
  Dict([k \in {"diet_plan", "workout_plan", "tips"} |->
          IF k = "diet_plan" THEN diet ELSE IF k = "workout_plan" THEN workout ELSE tips])

Tips == List(<<"Drink water", "Sleep 8 hours">>)

\* Texts the model may answer the merge prompt with; the first echoes the
\* two plans of the prompt.
MergeTexts(prompt) ==
  { Raw(FALSE, b) : b \in
      { Combined(prompt.diet_plan, prompt.workout_plan, Tips),
        Garbage,
        Dict([k \in {"diet_plan", "workout_plan"} |-> GoodWeek]),
        Combined(ShortWeek, GoodWeek, Tips),
        Combined(GoodWeek, ShortWeek, List(<<>>)),
        Combined(WeekOf(AllDays, "Wednesday", TunaWrap), GoodWeek, Tips),
        Combined(WeekOf(AllDays, "Friday", Donut), GoodWeek, Tips),
        Combined(List(<<>>), GoodWeek, Tips) } }

TextsFor(prompt) ==
  IF prompt.kind = "diet" THEN DietTexts
  ELSE IF prompt.kind = "workout" THEN WorkoutTexts
  ELSE MergeTexts(prompt)

\* Every answer the upstream may give to a POST of `prompt`.
UpstreamResponses(prompt) ==
  { NetworkError, HttpError(429), HttpError(500), BadBody,
    Ok(FALSE, FALSE, "STOP", Raw(FALSE, Garbage)),
    Ok(FALSE, FALSE, "MAX_TOKENS", Raw(FALSE, Garbage)),
    Ok(TRUE, FALSE, "STOP", Raw(FALSE, Garbage)) }
  \cup { Ok(TRUE, TRUE, fr, t) : fr \in {"STOP", "MAX_TOKENS"}, t \in TextsFor(prompt) }

\* ------------------------------------------------------------------ state
VARIABLES
  loop,          \* the request whose coroutine runs on the event loop, or 0
  pc,            \* where each request is
  stage,         \* which of the three generators a request is in
  user,          \* the validated UserInput of the request
  metrics,       \* bmr, tdee, calorie_target, macros once computed
  gw,            \* the frame of the request's current (or last) call_llm
  text,          \* what that call_llm returned
  diet_plan,     \* generate_diet_plan's result
  workout_plan,  \* generate_workout_plan's result
  combined_plan, \* combine_plans' result
  err,           \* the exception that ended the request
  response,      \* the HTTP response of the request
  calls,         \* call_llm invocations per stage
  events,        \* the stages the request went through, in order
  upstream_posts \* the POSTs the request sent to the upstream, all calls together

vars == <<loop, pc, stage, user, metrics, gw, text, diet_plan, workout_plan,
          combined_plan, err, response, calls, events, upstream_posts>>

Stages == {"diet", "workout", "merge"}

NoCalls == [s \in Stages |-> 0]

Init ==
  /\ loop = 0
  /\ pc = [r \in Requests |-> "idle"]
  /\ stage = [r \in Requests |-> "none"]
  /\ user = [r \in Requests |-> None]
  /\ metrics = [r \in Requests |-> None]
  /\ gw = [r \in Requests |-> NoCall]
  /\ text = [r \in Requests |-> None]
  /\ diet_plan = [r \in Requests |-> None]
  /\ workout_plan = [r \in Requests |-> None]
  /\ combined_plan = [r \in Requests |-> None]
  /\ err = [r \in Requests |-> NoExc]
  /\ response = [r \in Requests |-> None]
  /\ calls = [r \in Requests |-> NoCalls]
  /\ events = [r \in Requests |-> <<>>]
  /\ upstream_posts = [r \in Requests |-> 0]

\* user_data: user.dict() with the rounded calorie target.
UserData(r) == [profile |-> user[r], calorie_target |-> metrics[r].calorie_target]

\* The three prompts, by what they interpolate.
DietPrompt(user_data, macros) == [kind |-> "diet", user_data |-> user_data, macros |-> macros]

WorkoutPrompt(user_data) == [kind |-> "workout", user_data |-> user_data]

MergePrompt(diet, workout, user_data) ==
  [kind |-> "merge", diet_plan |-> diet, workout_plan |-> workout, user_data |-> user_data]

\* Mutant: the catch-all clause tried first.
BoundaryCatchAllFirst(e) == [status |-> 500, detail |-> "Internal server error"]

\* generate_plan's two except clauses.
Boundary(e) ==
  IF e.type = "ValueError"
  THEN [status |-> 500, detail |-> e.msg]
  ELSE [status |-> 500, detail |-> "Internal server error"]

\* A coroutine runs only while it holds the event loop's thread; generate_plan
\* never awaits, so it holds it from its first line to its return or raise.
Holds(r) == loop = r

LoopFree == loop = 0

\* ---------------------------------------------------------------- actions
\* A client sends POST /generate_plan; the request waits for the event loop.
Arrive(r) ==
  /\ pc[r] = "idle"
  /\ pc' = [pc EXCEPT ![r] = "pending"]
  /\ UNCHANGED <<upstream_posts, loop, stage, user, metrics, gw, text, diet_plan, workout_plan,
                 combined_plan, err, response, calls, events>>

\* The event loop picks the request up: body `p` is validated into a
\* UserInput and the coroutine runs on it: the input validation and steps
\* 1-4 (BMR, TDEE, calorie target, macros).
Begin(r, p) ==
  /\ pc[r] = "pending"
  /\ LoopFree
  /\ loop' = r
  /\ IF ~ModelValid(p)
     THEN /\ pc' = [pc EXCEPT ![r] = "rejected"]
          /\ response' = [response EXCEPT ![r] = [status |-> 422, detail |-> "validation error"]]
          /\ UNCHANGED <<user, metrics, events>>
     ELSE IF ValidationDetail(p) # ""
     THEN /\ pc' = [pc EXCEPT ![r] = "rejected"]
          /\ user' = [user EXCEPT ![r] = p]
          /\ response' = [response EXCEPT ![r] = [status |-> 400, detail |-> ValidationDetail(p)]]
          /\ UNCHANGED <<metrics, events>>
     ELSE /\ pc' = [pc EXCEPT ![r] = "computed"]
          /\ user' = [user EXCEPT ![r] = p]
          /\ metrics' = [metrics EXCEPT ![r] = ComputeMetrics(p)]
          /\ events' = [events EXCEPT ![r] = Append(@, "metrics")]
          /\ UNCHANGED response
  /\ UNCHANGED <<upstream_posts, stage, gw, text, diet_plan, workout_plan, combined_plan,
                 err, calls>>

\* Entering call_llm from the generator of stage `s` with `prompt`.
EnterCall(r, s, prompt, max_tokens) ==
  /\ stage' = [stage EXCEPT ![r] = s]
  /\ gw' = [gw EXCEPT ![r] = NewCall(prompt, max_tokens)]
  /\ calls' = [calls EXCEPT ![r][s] = @ + 1]
  /\ pc' = [pc EXCEPT ![r] = "post"]
  /\ text' = [text EXCEPT ![r] = None]

\* The request ends with exception `e`: generate_plan's except clauses.
FailWith(r, e) ==
  /\ pc' = [pc EXCEPT ![r] = "failed"]
  /\ err' = [err EXCEPT ![r] = e]
  /\ response' = [response EXCEPT ![r] = Boundary(e)]
  /\ events' = [events EXCEPT ![r] = Append(@, "failed")]
  /\ UNCHANGED loop

\* generate_diet_plan is called: the diet prompt, then call_llm.
StartDiet(r) ==
  /\ Holds(r)
  /\ pc[r] = "computed"
  /\ EnterCall(r, "diet", DietPrompt(UserData(r), metrics[r].macros), DietMaxTokens)
  /\ events' = [events EXCEPT ![r] = Append(@, "diet_call")]
  /\ UNCHANGED <<upstream_posts, loop, user, metrics, diet_plan, workout_plan, combined_plan, err, response>>

\* `attempt in range(retries)`: the for loop has another iteration.
InRange(attempt, retries) == attempt < retries

\* The head of call_llm's for loop.  With an iteration left, requests.post is
\* issued and the thread blocks until the upstream answers; with the range
\* used up the loop ends and the function returns None.
Post(r) ==
  /\ Holds(r)
  /\ pc[r] = "post"
  /\ IF InRange(gw[r].attempt, gw[r].retries)
     THEN /\ gw' = [gw EXCEPT ![r].posts = @ + 1]
          /\ upstream_posts' = [upstream_posts EXCEPT ![r] = @ + 1]
          /\ pc' = [pc EXCEPT ![r] = "await"]
     ELSE /\ pc' = [pc EXCEPT ![r] = "returned"]
          /\ UNCHANGED <<gw, upstream_posts>>
  /\ UNCHANGED <<loop, stage, user, metrics, text, diet_plan, workout_plan,
                 combined_plan, err, response, calls, events>>

\* The upstream answers; the rest of the loop body runs on the answer.
Respond(r) ==
  /\ Holds(r)
  /\ pc[r] = "await"
  /\ \E resp \in UpstreamResponses(gw[r].prompt) :
     LET h == HandleResponse(gw[r], resp)
     IN  /\ gw' = [gw EXCEPT ![r] = h.frame]
         /\ CASE h.do = "sleep" ->
                   /\ pc' = [pc EXCEPT ![r] = "sleep"]
                   /\ UNCHANGED <<text, err, response, events>>
              [] h.do = "continue" ->
                   /\ pc' = [pc EXCEPT ![r] = "post"]
                   /\ UNCHANGED <<text, err, response, events>>
              [] h.do = "return" ->
                   /\ pc' = [pc EXCEPT ![r] = "returned"]
                   /\ text' = [text EXCEPT ![r] = h.text]
                   /\ UNCHANGED <<err, response, events>>
              [] OTHER ->
                   /\ FailWith(r, h.exc)
                   /\ UNCHANGED text
  /\ UNCHANGED <<upstream_posts, loop, stage, user, metrics, diet_plan, workout_plan, combined_plan, calls>>

\* time.sleep returns; `continue` takes the loop to its next attempt.
Wake(r) ==
  /\ Holds(r)
  /\ pc[r] = "sleep"
  /\ gw' = [gw EXCEPT ![r].attempt = @ + 1]
  /\ pc' = [pc EXCEPT ![r] = "post"]
  /\ UNCHANGED <<upstream_posts, loop, stage, user, metrics, text, diet_plan, workout_plan,
                 combined_plan, err, response, calls, events>>

\* Mutant: a diet answer that fails to parse or to comply is re-prompted once.
ParseDietReprompt(r) ==
  /\ Holds(r)
  /\ pc[r] = "returned" /\ stage[r] = "diet"
  /\ LET res == ParseDietPlan(text[r], user[r])
     IN  IF res.exc = NoExc
         THEN /\ diet_plan' = [diet_plan EXCEPT ![r] = res.plan]
              /\ pc' = [pc EXCEPT ![r] = "parsed"]
              /\ events' = [events EXCEPT ![r] = Append(@, "diet_parsed")]
              /\ UNCHANGED <<err, response, gw, text, calls, stage>>
         ELSE IF calls[r]["diet"] < 2
         THEN /\ EnterCall(r, "diet", gw[r].prompt, DietMaxTokens)
              /\ UNCHANGED <<err, response, events, diet_plan>>
         ELSE /\ FailWith(r, res.exc)
              /\ UNCHANGED <<diet_plan, gw, text, calls, stage>>
  /\ UNCHANGED <<upstream_posts, loop, user, metrics, workout_plan, combined_plan>>

\* generate_diet_plan after call_llm: json.loads, the structure check, the screen.
ParseDiet(r) ==
  /\ Holds(r)
  /\ pc[r] = "returned" /\ stage[r] = "diet"
  /\ LET res == ParseDietPlan(text[r], user[r])
     IN  IF res.exc = NoExc
         THEN /\ diet_plan' = [diet_plan EXCEPT ![r] = res.plan]
              /\ pc' = [pc EXCEPT ![r] = "parsed"]
              /\ events' = [events EXCEPT ![r] = Append(@, "diet_parsed")]
              /\ UNCHANGED <<err, response>>
         ELSE /\ FailWith(r, res.exc)
              /\ UNCHANGED diet_plan
  /\ UNCHANGED <<upstream_posts, loop, stage, user, metrics, gw, text, workout_plan, combined_plan, calls>>

\* Mutant: the workout generator dispatched without waiting for the diet plan.
StartWorkoutEarly(r) ==
  /\ Holds(r)
  /\ pc[r] \in {"computed", "parsed"} /\ stage[r] \in {"none", "diet"}
  /\ EnterCall(r, "workout", WorkoutPrompt(UserData(r)), WorkoutMaxTokens)
  /\ events' = [events EXCEPT ![r] = Append(@, "workout_call")]
  /\ UNCHANGED <<upstream_posts, loop, user, metrics, diet_plan, workout_plan, combined_plan, err, response>>

\* generate_workout_plan is called.
StartWorkout(r) ==
  /\ Holds(r)
  /\ pc[r] = "parsed" /\ stage[r] = "diet"
  /\ EnterCall(r, "workout", WorkoutPrompt(UserData(r)), WorkoutMaxTokens)
  /\ events' = [events EXCEPT ![r] = Append(@, "workout_call")]
  /\ UNCHANGED <<upstream_posts, loop, user, metrics, diet_plan, workout_plan, combined_plan, err, response>>

\* generate_workout_plan after call_llm: json.loads and the structure check.
ParseWorkout(r) ==
  /\ Holds(r)
  /\ pc[r] = "returned" /\ stage[r] = "workout"
  /\ LET res == ParseWorkoutPlan(text[r])
     IN  IF res.exc = NoExc
         THEN /\ workout_plan' = [workout_plan EXCEPT ![r] = res.plan]
              /\ pc' = [pc EXCEPT ![r] = "parsed"]
              /\ events' = [events EXCEPT ![r] = Append(@, "workout_parsed")]
              /\ UNCHANGED <<err, response>>
         ELSE /\ FailWith(r, res.exc)
              /\ UNCHANGED workout_plan
  /\ UNCHANGED <<upstream_posts, loop, stage, user, metrics, gw, text, diet_plan, combined_plan, calls>>

\* combine_plans is called with the two plans the generators returned.
StartMerge(r) ==
  /\ Holds(r)
  /\ pc[r] = "parsed" /\ stage[r] = "workout"
  /\ EnterCall(r, "merge", MergePrompt(diet_plan[r], workout_plan[r], UserData(r)),
               MergeMaxTokens)
  /\ events' = [events EXCEPT ![r] = Append(@, "merge_call")]
  /\ UNCHANGED <<upstream_posts, loop, user, metrics, diet_plan, workout_plan, combined_plan, err, response>>

\* combine_plans after call_llm: json.loads, the three keys, the screen.
ParseMerge(r) ==
  /\ Holds(r)
  /\ pc[r] = "returned" /\ stage[r] = "merge"
  /\ LET res == ParseCombinedPlan(text[r], user[r])
     IN  IF res.exc = NoExc
         THEN /\ combined_plan' = [combined_plan EXCEPT ![r] = res.plan]
              /\ pc' = [pc EXCEPT ![r] = "parsed"]
              /\ events' = [events EXCEPT ![r] = Append(@, "merge_parsed")]
              /\ UNCHANGED <<err, response>>
         ELSE /\ FailWith(r, res.exc)
              /\ UNCHANGED combined_plan
  /\ UNCHANGED <<upstream_posts, loop, stage, user, metrics, gw, text, diet_plan, workout_plan, calls>>

\* generate_plan returns the payload (created_at left out).
Finish(r) ==
  /\ Holds(r)
  /\ pc[r] = "parsed" /\ stage[r] = "merge"
  /\ response' = [response EXCEPT ![r] =
        [status |-> 200, bmr |-> metrics[r].bmr, tdee |-> metrics[r].tdee,
         calorie_target |-> metrics[r].calorie_target, macros |-> metrics[r].macros,
         plan |-> combined_plan[r]]]
  /\ pc' = [pc EXCEPT ![r] = "done"]
  /\ events' = [events EXCEPT ![r] = Append(@, "done")]
  /\ UNCHANGED <<upstream_posts, loop, stage, user, metrics, gw, text, diet_plan, workout_plan,
                 combined_plan, err, calls>>

\* The response is written to the client, everything request-scoped is
\* dropped, and the event loop is free for the next coroutine.
Send(r) ==
  /\ Holds(r)
  /\ pc[r] \in {"done", "failed", "rejected"}
  /\ pc' = [pc EXCEPT ![r] = "idle"]
  /\ stage' = [stage EXCEPT ![r] = "none"]
  /\ user' = [user EXCEPT ![r] = None]
  /\ metrics' = [metrics EXCEPT ![r] = None]
  /\ gw' = [gw EXCEPT ![r] = NoCall]
  /\ text' = [text EXCEPT ![r] = None]
  /\ diet_plan' = [diet_plan EXCEPT ![r] = None]
  /\ workout_plan' = [workout_plan EXCEPT ![r] = None]
  /\ combined_plan' = [combined_plan EXCEPT ![r] = None]
  /\ err' = [err EXCEPT ![r] = NoExc]
  /\ response' = [response EXCEPT ![r] = None]
  /\ calls' = [calls EXCEPT ![r] = NoCalls]
  /\ events' = [events EXCEPT ![r] = <<>>]
  /\ upstream_posts' = [upstream_posts EXCEPT ![r] = 0]
  /\ loop' = 0

Next ==
  \E r \in Requests :
    \/ Arrive(r)
    \/ \E p \in Profiles : Begin(r, p)
    \/ StartDiet(r)
    \/ Post(r)
    \/ Respond(r)
    \/ Wake(r)
    \/ ParseDiet(r)
    \/ StartWorkout(r)
    \/ ParseWorkout(r)
    \/ StartMerge(r)
    \/ ParseMerge(r)
    \/ Finish(r)
    \/ Send(r)

Spec == Init /\ [][Next]_vars

\* The next statement of the coroutine of request r.
Step(r) ==
  \/ StartDiet(r)
  \/ Post(r)
  \/ Respond(r)
  \/ Wake(r)
  \/ ParseDiet(r)
  \/ StartWorkout(r)
  \/ ParseWorkout(r)
  \/ StartMerge(r)
  \/ ParseMerge(r)
  \/ Finish(r)

\* The run of one request from its arrival to its response.  The coroutine
\* that holds the event loop runs alone until it returns or raises, so what
\* its run does depends on no other request.
Lone == CHOOSE r \in Requests : \A q \in Requests : r <= q

LoneNext ==
  \/ Arrive(Lone)
  \/ \E p \in Profiles : Begin(Lone, p)
  \/ Step(Lone)
  \/ Send(Lone)

\* The event loop picks up a request that waits while the loop is free; the
\* thread that holds the loop runs the coroutine's next statement, every
\* requests.post returns or raises and every time.sleep ends; the response
\* of a finished request is sent.
FairSpec ==
  /\ Init /\ [][LoneNext]_vars
  /\ WF_vars(\E p \in Profiles : Begin(Lone, p))
  /\ WF_vars(Step(Lone))
  /\ WF_vars(Send(Lone))

\* ------------------------------------------------- the metrics on a grid
\* Steps 1-4 of generate_plan over a grid of bodies that UserInput accepts:
\* the ends of the range the form offers (age 10-100, height 100-250,
\* weight 30-200), values inside it, and the smallest values the API itself
\* accepts (gt=0).
Ages == {1, 10, 30, 60, 100}

Heights == {1, 100, 150, 175, 250}

Weights == {1, 30, 50, 70, 200}

Sexes == {"male", "female"}

ActivityLevels == {"sedentary", "light", "moderate", "active", "very_active"}

FitnessGoals == {"lose", "maintain", "gain"}

GridProfiles ==
  { Profile(a, s, h, w, l, g, <<>>, <<>>, 3) :
      a \in Ages, s \in Sexes, h \in Heights, w \in Weights,
      l \in ActivityLevels, g \in FitnessGoals }

MetricsNext ==
  \E r \in Requests :
    \/ Arrive(r)
    \/ \E p \in GridProfiles : Begin(r, p)

MetricsSpec == Init /\ [][MetricsNext]_vars

\* ------------------------------------------------------------------ claims
\* The order of the stage events of a request that succeeds.
StageOrder ==
  <<"metrics", "diet_call", "diet_parsed", "workout_call", "workout_parsed",
    "merge_call", "merge_parsed", "done">>

IsPrefix(s, t) == Len(s) <= Len(t) /\ s = SubSeq(t, 1, Len(s))

\* The stage events of request r without the closing "failed".
StagesRun(r) ==
  IF events[r] # <<>> /\ events[r][Len(events[r])] = "failed"
  THEN SubSeq(events[r], 1, Len(events[r]) - 1)
  ELSE events[r]

InCall(r) == pc[r] \in {"post", "await", "sleep", "returned"}

\* C1: within one request the stages run in one fixed order without overlap:
\* the stage events are always a prefix of metrics, diet call, diet parsed,
\* workout call, workout parsed, merge call, merge parsed, done; the diet
\* prompt is built from the computed calorie target and macros; once the
\* workout call is issued the diet plan is there, parsed and screened; the
\* merge prompt carries exactly the two plans the generators returned; and a
\* request is done only with the combined plan parsed and screened from the
\* merge call's text.
C1_StagesInOrder ==
  \A r \in Requests :
    /\ IsPrefix(StagesRun(r), StageOrder)
    /\ (stage[r] = "diet" /\ InCall(r)) =>
         /\ metrics[r] = ComputeMetrics(user[r])
         /\ gw[r].prompt = DietPrompt(UserData(r), metrics[r].macros)
    /\ calls[r]["workout"] > 0 =>
         /\ diet_plan[r] # None
         /\ AllDaysIn(diet_plan[r])
         /\ validate_diet_plan(diet_plan[r], user[r].dietary_preferences,
                               user[r].restrictions) = NoExc
    /\ calls[r]["merge"] > 0 =>
         /\ workout_plan[r] # None
         /\ gw[r].prompt = MergePrompt(diet_plan[r], workout_plan[r], UserData(r))
    /\ pc[r] = "done" =>
         /\ combined_plan[r] # None
         /\ ParseCombinedPlan(text[r], user[r]) = [exc |-> NoExc, plan |-> combined_plan[r]]
         /\ response[r].plan = combined_plan[r]

\* A request that went through every stage and is done.
C1_Witness ==
  \E r \in Requests : pc[r] = "done" /\ events[r] = StageOrder

StageRank(s) == CASE s = "diet" -> 1 [] s = "workout" -> 2 [] s = "merge" -> 3 [] OTHER -> 0

\* C2: a failure at any stage ends the request at once: the event before
\* "failed" is the call of the failing stage, no later stage was called or
\* left a plan, no stage invoked the gateway more than once, and the
\* response holds a status and a detail and nothing else.
C2_FailureIsFinal ==
  \A r \in Requests :
    /\ \A s \in Stages : calls[r][s] <= 1
    /\ pc[r] = "failed" =>
         /\ DOMAIN response[r] = {"status", "detail"}
         /\ response[r].status = 500
         /\ Len(events[r]) >= 2
         /\ events[r][Len(events[r]) - 1] = stage[r] \o "_call"
         /\ \A s \in Stages : StageRank(s) > StageRank(stage[r]) => calls[r][s] = 0
         /\ stage[r] = "diet" => diet_plan[r] = None
         /\ stage[r] \in {"diet", "workout"} => workout_plan[r] = None
         /\ combined_plan[r] = None

\* A request failed in the workout stage, after a diet plan was accepted.
C2_Witness ==
  \E r \in Requests : pc[r] = "failed" /\ stage[r] = "workout" /\ diet_plan[r] # None

\* The gateway call of request r ended by raising on an HTTP 429.
FailedOn429(r) == pc[r] = "failed" /\ err[r].class = "upstream" /\ gw[r].last = "http429"

\* Every answer of the call was an HTTP 429.
Only429(r) == gw[r].ntrunc = 0 /\ FailedOn429(r)

\* The delays 2^0 .. 2^(n-1).
PowersOfTwo(n) == [i \in 1..n |-> Pow2(i - 1)]

\* C3 as stated: answered 429 on every attempt, the call sleeps one
\* power-of-two delay per attempt (1s, 2s, 4s for retries = 3) before failing.
C3_SleepsPerAttempt ==
  \A r \in Requests :
    Only429(r) => gw[r].posts = gw[r].retries /\ gw[r].sleeps = PowersOfTwo(gw[r].retries)

\* C3, amended: answered 429 on every attempt, the call issues exactly
\* `retries` POSTs and fails with the upstream error on the last one without
\* sleeping; it slept after each earlier one, 2^attempt seconds: retries - 1
\* delays, 1s and 2s for retries = 3.  At every moment the delays slept in a
\* call with no truncated answer are the first powers of two.
C3_BackoffBeforeEachRetry ==
  \A r \in Requests :
    /\ Only429(r) =>
         /\ gw[r].posts = gw[r].retries
         /\ gw[r].sleeps = PowersOfTwo(gw[r].retries - 1)
         /\ err[r].type = "ValueError"
    /\ gw[r].ntrunc = 0 => gw[r].sleeps = PowersOfTwo(gw[r].n429)

\* A call that failed after nothing but 429 answers.
C3_Witness == \E r \in Requests : Only429(r) /\ stage[r] = "diet"

\* C4 as stated: truncated answers leave the rate-limit budget alone, so a
\* call that gives up on a 429 has tolerated as many 429 answers as a call
\* with no truncated answer does (retries - 1).
C4_SeparateBudget ==
  \A r \in Requests : FailedOn429(r) => gw[r].n429 = gw[r].retries - 1

\* C4, amended: a truncated answer with attempts remaining is retried with
\* the cap set to max_tokens + 1000 (once raised it stays there), and the
\* retry uses up one attempt of the one loop the 429 retries share: the loop
\* index is the number of 429 and truncated answers retried, no call issues
\* more than `retries` POSTs, and a call gives up on a 429 exactly when the
\* 429 and truncated answers it retried add up to retries - 1.
C4_SharedBudget ==
  \A r \in Requests :
    /\ gw[r].maxOutputTokens =
         IF gw[r].ntrunc > 0 THEN gw[r].max_tokens + TokenBump ELSE gw[r].max_tokens
    /\ pc[r] \in {"post", "await"} => gw[r].attempt = gw[r].n429 + gw[r].ntrunc
    /\ gw[r].posts <= gw[r].retries
    /\ FailedOn429(r) => gw[r].n429 + gw[r].ntrunc = gw[r].retries - 1

\* A call that gave up on its first 429, after two truncated answers.
C4_Witness ==
  \E r \in Requests : FailedOn429(r) /\ gw[r].ntrunc = 2 /\ gw[r].n429 = 0

NonRetryable == {"network", "http_error", "bad_body", "no_candidates"}

\* C6: after a network failure, an HTTP error other than 429 or a 200 with
\* no candidate (or no JSON body at all) the call has raised: the request is failed with a ValueError,
\* the POST that got the answer is the call's last, and no delay was slept
\* for it (every delay belongs to a retried 429).
C6_NonRetryableIsTerminal ==
  \A r \in Requests :
    gw[r].last \in NonRetryable =>
      /\ pc[r] = "failed"
      /\ err[r].type = "ValueError"
      /\ gw[r].posts = gw[r].attempt + 1
      /\ Len(gw[r].sleeps) = gw[r].n429

\* An HTTP 500 on the first attempt, with two attempts left.
C6_Witness ==
  \E r \in Requests :
    gw[r].last = "http_error" /\ gw[r].attempt = 0 /\ pc[r] = "failed"

\* No value of the mapping `plan` is a text holding one of `terms`
\* (case-insensitive substring), and every value is a text.
FreeOf(plan, terms) ==
  /\ IsDict(plan)
  /\ \A k \in DOMAIN plan.m :
       plan.m[k].t = "str" /\ ~AnyTermIn(terms, Lower(plan.m[k].s))

IsVegetarian(r) == Vegetarian \in Range(user[r].dietary_preferences)

IsNoNuts(r) == NoNuts \in Range(user[r].restrictions)

\* The mapping the screen was run on when the request failed in it.
Screened(r) ==
  IF stage[r] = "diet" THEN json_loads(text[r]) ELSE json_loads(text[r]).m["diet_plan"]

\* C5: a request that is done with "vegetarian" among its preferences has no
\* non-vegetarian term in any value of its standalone diet plan nor of the
\* diet_plan it returns, and with "no nuts" among its restrictions no nut
\* term in either; and a request the screen failed does hold a listed term,
\* of a list its profile switches on, in the plan that was screened.
C5_DietCompliance ==
  \A r \in Requests :
    /\ (pc[r] = "done" /\ IsVegetarian(r)) =>
         /\ FreeOf(diet_plan[r], non_veg_terms)
         /\ FreeOf(response[r].plan.m["diet_plan"], non_veg_terms)
    /\ (pc[r] = "done" /\ IsNoNuts(r)) =>
         /\ FreeOf(diet_plan[r], nut_terms)
         /\ FreeOf(response[r].plan.m["diet_plan"], nut_terms)
    /\ (pc[r] = "failed" /\ err[r].class = "compliance") =>
         \/ IsVegetarian(r) /\ ~FreeOf(Screened(r), non_veg_terms)
         \/ IsNoNuts(r) /\ ~FreeOf(Screened(r), nut_terms)

\* A vegetarian, no-nuts request that is done.
C5_Witness ==
  \E r \in Requests : pc[r] = "done" /\ IsVegetarian(r) /\ IsNoNuts(r)

PipelineFailures == {"upstream", "malformed_upstream", "schema", "compliance"}

\* C7: a failed request whose failure is an upstream error, a malformed
\* upstream response, a schema error or a compliance error, at any stage,
\* was raised as a ValueError and answers HTTP 500 with that error's own
\* message; the detail "Internal server error" is given to no such failure.
C7_FailureDetail ==
  \A r \in Requests :
    pc[r] = "failed" =>
      /\ response[r].status = 500
      /\ err[r].class \in PipelineFailures =>
           err[r].type = "ValueError" /\ response[r].detail = err[r].msg
      /\ response[r].detail = "Internal server error" =>
           err[r].class \notin PipelineFailures

\* A compliance failure in the merge stage.
C7_Witness ==
  \E r \in Requests :
    pc[r] = "failed" /\ err[r].class = "compliance" /\ stage[r] = "merge"

\* C8: while request a waits for the upstream or sleeps in its backoff,
\* every other request that is pending can take its next step.
C8_NoSerialization ==
  \A a, b \in Requests :
    (a # b /\ pc[a] \in {"await", "sleep"} /\ pc[b] = "pending") =>
      ENABLED (\E p \in Profiles : Begin(b, p))

\* The weekly plans of request r that the parsers accepted.
AcceptedWeeks(r) == {diet_plan[r], workout_plan[r]} \ {None}

\* C9 as stated: an accepted weekly plan has the seven weekday keys and no
\* other key.
C9_ExactlySevenKeys ==
  \A r \in Requests : \A plan \in AcceptedWeeks(r) : DOMAIN plan.m = AllDays

\* C9, amended: an accepted weekly plan is a mapping holding all seven
\* weekday keys (other keys are let through with it), and a text that
\* decodes to a mapping missing a weekday is never accepted: the request
\* fails with the structure error.
C9_AllSevenPresent ==
  \A r \in Requests :
    /\ \A plan \in AcceptedWeeks(r) : IsDict(plan) /\ AllDays \subseteq DOMAIN plan.m
    /\ (stage[r] \in {"diet", "workout"} /\ text[r] # None /\ pc[r] # "returned") =>
         LET parsed == json_loads(text[r])
         IN  (IsDict(parsed) /\ ~(AllDays \subseteq DOMAIN parsed.m)) =>
               /\ pc[r] = "failed"
               /\ err[r].class = "schema" /\ err[r].type = "ValueError"

\* A mapping short of a day was rejected by the workout parser.
C9_Witness ==
  \E r \in Requests :
    /\ pc[r] = "failed" /\ stage[r] = "workout" /\ text[r] = Raw(FALSE, ShortWeek)

\* C10 as stated: a request that is done returns sub-plans holding all seven
\* weekday keys and a non-empty list of tips.
C10_CompleteCombinedPlan ==
  \A r \in Requests :
    pc[r] = "done" =>
      LET plan == response[r].plan.m
      IN  /\ IsDict(plan["diet_plan"]) /\ AllDaysIn(plan["diet_plan"])
          /\ IsDict(plan["workout_plan"]) /\ AllDaysIn(plan["workout_plan"])
          /\ plan["tips"].t = "list" /\ Len(plan["tips"].xs) > 0

\* C10, amended: a request that is done returns, with status 200, the
\* decoded merge answer: a mapping holding the keys diet_plan, workout_plan
\* and tips whose diet_plan is a mapping of texts that passes the screen.
C10_ThreeKeysAndScreened ==
  \A r \in Requests :
    pc[r] = "done" =>
      /\ response[r].status = 200
      /\ response[r].plan = json_loads(text[r])
      /\ IsDict(response[r].plan)
      /\ {"diet_plan", "workout_plan", "tips"} \subseteq DOMAIN response[r].plan.m
      /\ validate_diet_plan(response[r].plan.m["diet_plan"], user[r].dietary_preferences,
                            user[r].restrictions) = NoExc

\* A request done with a diet_plan short of a day.
C10_Witness ==
  \E r \in Requests :
    pc[r] = "done" /\ ~AllDaysIn(response[r].plan.m["diet_plan"])

\* C11: every body that passes the validation (age, height and weight above
\* zero, a known sex, activity level and goal) gets macro targets that are
\* integers not below zero: protein_g >= 0, fat_g >= 0 and carbs_g >= 0.
C11_MacrosNonNegative ==
  \A r \in Requests :
    metrics[r] # None =>
      /\ ModelValid(user[r]) /\ ValidationDetail(user[r]) = ""
      /\ metrics[r].macros.protein_g \in Nat
      /\ metrics[r].macros.fat_g \in Nat
      /\ metrics[r].macros.carbs_g \in Nat

\* The POSTs a request may send: `retries` for each of its three calls.
PostBudget == Cardinality(Stages) * Retries

\* A gateway call stays inside its range of attempts, sends at most `retries`
\* POSTs, and hands text to its caller when it returns; the request sends at
\* most PostBudget POSTs.
C12_Budget ==
  \A r \in Requests :
    /\ gw[r].posts <= gw[r].retries
    /\ pc[r] \in {"post", "await", "sleep"} => gw[r].attempt < gw[r].retries
    /\ pc[r] = "returned" => text[r] # None
    /\ upstream_posts[r] <= PostBudget

Ended(r) == pc[r] \in {"done", "failed", "rejected"}

\* C12: when every POST to the upstream returns or fails, every request
\* ends (done or failed; rejected when its body is invalid), after at most
\* `retries` POSTs in each gateway call and 3 x retries = 9 POSTs in all,
\* whatever mix of 429, truncated, failed and good answers it gets; and a
\* gateway call never leaves its loop without text or an exception.
C12_EndsWithinBudget ==
  /\ []C12_Budget
  /\ \A r \in Requests : (pc[r] = "pending") ~> Ended(r)
  /\ \A r \in Requests : (pc[r] = "computed") ~> (pc[r] \in {"done", "failed"})

\* A request that is done after all nine POSTs, each call having retried
\* a 429 and a truncated answer.
C12_Witness ==
  \E r \in Requests :
    /\ pc[r] = "done"
    /\ upstream_posts[r] = PostBudget
    /\ gw[r].posts = Retries /\ gw[r].n429 >= 1 /\ gw[r].ntrunc >= 1

====
